---- MODULE Spec2Model ----
(***************************************************************************)
(* Model of the two Lambda handlers of aws-hello-world-api:                *)
(*   src/handlers/hello.js   (greeting endpoint)                           *)
(*   src/handlers/health.js  (health-check endpoint)                       *)
(* Every statement of a handler that reads a capability of the runtime     *)
(* (console.log, Date, Date.now, process.memoryUsage) is one step, and     *)
(* each such step may complete or throw.  A handler invocation runs in a   *)
(* slot; its locals live in inv[s].                                        *)
(***************************************************************************)
EXTENDS Integers, Sequences, FiniteSets, TLC

(***************************************************************************)
(* Bounds of the model.                                                    *)
(***************************************************************************)
MaxClock == 2

(***************************************************************************)
(* JavaScript values.  A string-valued property that is absent reads as    *)
(* Undefined.  Members of objects that are serialised are tagged values.   *)
(***************************************************************************)
Undefined == "<undefined>"

JsString(str) == [t |-> "string", s |-> str, n |-> 0, o |-> <<>>]
JsNumber(num) == [t |-> "number", s |-> "", n |-> num, o |-> <<>>]
JsObject(members) == [t |-> "object", s |-> "", n |-> 0, o |-> members]
JsUndefined == [t |-> "undefined", s |-> "", n |-> 0, o |-> <<>>]

\* a property read off an object: the string, or undefined when absent
JsProp(x) == IF x = Undefined THEN JsUndefined ELSE JsString(x)

\* x || d on a string-or-undefined x: undefined and "" are falsy
OrDefault(x, d) == IF x = Undefined \/ x = "" THEN d ELSE x

\* an object literal is its members <<key, value>> in source order
Has(members, key) == \E i \in 1..Len(members) : members[i][1] = key

Get(members, key) ==
    IF Has(members, key)
    THEN members[CHOOSE i \in 1..Len(members) : members[i][1] = key][2]
    ELSE JsUndefined

Keys(members) == [i \in 1..Len(members) |-> members[i][1]]

RECURSIVE JSONmembers(_)
JSONmembers(members) ==
    IF members = <<>> THEN <<>>
    ELSE LET m == Head(members)
             rest == JSONmembers(Tail(members))
         IN  IF m[2].t = "undefined" THEN rest
             ELSE IF m[2].t = "object"
                  THEN <<(<<m[1], JsObject(JSONmembers(m[2].o))>>)>> \o rest
                  ELSE <<m>> \o rest

\* JSON.stringify of an object literal: a string holding the JSON text of
\* the members; members whose value is undefined are left out
JSONstringify(members) == [t |-> "string", json |-> JSONmembers(members)]

\* JSON.parse of such a string
JSONparse(text) == text.json


(***************************************************************************)
(* Number formatting.  A template literal `${n}ms` writes the decimal      *)
(* digits of n, preceded by "-" when n is negative.  Texts that are        *)
(* inspected character by character are sequences of characters.           *)
(***************************************************************************)
DigitChars == <<"0", "1", "2", "3", "4", "5", "6", "7", "8", "9">>

RECURSIVE DecimalDigits(_)
DecimalDigits(n) ==
    IF n < 10 THEN <<DigitChars[n + 1]>>
    ELSE DecimalDigits(n \div 10) \o <<DigitChars[(n % 10) + 1]>>

NumberToString(n) ==
    IF n < 0 THEN <<"-">> \o DecimalDigits(0 - n) ELSE DecimalDigits(n)

(***************************************************************************)
(* The inputs of an invocation.                                            *)
(***************************************************************************)
Methods == {"GET", "POST", "PUT", "DELETE", "OPTIONS"}

\* requestContext of an API Gateway proxy event: absent, empty, or carrying
\* a requestId and the caller's identity
RequestContexts ==
    { [present |-> FALSE, requestId |-> Undefined, sourceIp |-> Undefined],
      [present |-> TRUE, requestId |-> Undefined, sourceIp |-> Undefined],
      [present |-> TRUE, requestId |-> "", sourceIp |-> "127.0.0.1"],
      [present |-> TRUE, requestId |-> "abc-1", sourceIp |-> "127.0.0.1"] }

NoRequestContext == [present |-> FALSE, requestId |-> Undefined, sourceIp |-> Undefined]

\* the event the runtime passes to a handler; a handler invoked without a
\* payload receives null
NullEvent ==
    [isNull |-> TRUE, httpMethod |-> Undefined, path |-> Undefined,
     requestContext |-> NoRequestContext]

EventsFor(path) ==
    { [isNull |-> FALSE, httpMethod |-> m, path |-> path, requestContext |-> rc] :
        m \in Methods, rc \in RequestContexts } \cup {NullEvent}

\* process.env: each variable is unset, empty or set
Environments ==
    [ API_VERSION : {Undefined, "", "2.0.0"},
      ENVIRONMENT : {Undefined, "", "prod", "unhealthy"},
      AWS_REGION  : {Undefined, "us-west-2", "unhealthy"} ]

\* values Date.now() may return: the wall clock is not monotonic
Clock == 0..MaxClock

\* values new Date().toISOString() may return; the handlers copy the text
\* into the body and the log line and never inspect it
Timestamps == {"2024-01-01T00:00:00.000Z"}

\* values process.memoryUsage().heapUsed may return, in bytes
HeapSamples ==
    { 10 * 1024 * 1024, 93952409, 93952410, 95 * 1024 * 1024,
      120795955, 120795956, 120 * 1024 * 1024 }

\* what a failing capability throws: an Error, or a value without a stack
Faults ==
    { [message |-> "Simulated error", stack |-> "Error: Simulated error at handler"],
      [message |-> "Test error", stack |-> Undefined] }

NoFault == [message |-> Undefined, stack |-> Undefined]

\* what event.requestContext throws when event is null
NullEventFault ==
    [message |-> "Cannot read properties of null (reading 'requestContext')",
     stack |-> "TypeError: Cannot read properties of null at handler"]


(***************************************************************************)
(* The pure parts of the handlers.                                         *)
(***************************************************************************)

\* the request id with a preflight request answered under a fixed id
RequestIdOfPreflight(event) ==
    IF event.httpMethod = "OPTIONS" THEN "preflight"
    ELSE OrDefault(event.requestContext.requestId, "unknown")

\* the request id read without its default
RequestIdOfNoDefault(event) == event.requestContext.requestId

\* hello.js:22, health.js:22   event.requestContext?.requestId || 'unknown'
RequestIdOf(event) == OrDefault(event.requestContext.requestId, "unknown")

\* { ...members, key: value }: a key the literal already has keeps its
\* place and takes the new value, a new key goes to the end
WithMember(members, key, value) ==
    IF Has(members, key)
    THEN [i \in 1..Len(members) |->
            IF members[i][1] = key THEN <<key, value>> ELSE members[i]]
    ELSE Append(members, <<key, value>>)

\* { ...members, ...data }
RECURSIVE ObjectSpread(_, _)
ObjectSpread(members, data) ==
    IF data = <<>> THEN members
    ELSE ObjectSpread(WithMember(members, Head(data)[1], Head(data)[2]), Tail(data))

\* the log line with the level passed as context only
LogLineLevelDropped(timestamp, level, message, data) ==
    JSONstringify(ObjectSpread(<< <<"timestamp", JsString(timestamp)>>,
                                  <<"message", JsString(message)>> >>, data))

\* hello.js:7-14, health.js:7-14   the line log() hands to console.log
LogLine(timestamp, level, message, data) ==
    JSONstringify(ObjectSpread(<< <<"timestamp", JsString(timestamp)>>,
                                  <<"level", JsString(level)>>,
                                  <<"message", JsString(message)>> >>, data))

\* hello.js:26-31
HelloRequestLog(timestamp, requestId, event) ==
    LogLine(timestamp, "INFO", "Processing Hello World request",
            << <<"requestId", JsString(requestId)>>,
               <<"path", JsProp(event.path)>>,
               <<"method", JsProp(event.httpMethod)>>,
               <<"sourceIp", JsProp(event.requestContext.sourceIp)>> >>)

\* the payload with another greeting
HelloResponseDataOtherGreeting(timestamp, requestId, environ) ==
    << <<"message", JsString("Hello, World!")>>,
       <<"timestamp", JsString(timestamp)>>,
       <<"requestId", JsString(requestId)>>,
       <<"version", JsString(OrDefault(environ.API_VERSION, "1.0.0"))>>,
       <<"environment", JsString(OrDefault(environ.ENVIRONMENT, "dev"))>> >>

\* hello.js:37-43
HelloResponseData(timestamp, requestId, environ) ==
    << <<"message", JsString("Hello World!")>>,
       <<"timestamp", JsString(timestamp)>>,
       <<"requestId", JsString(requestId)>>,
       <<"version", JsString(OrDefault(environ.API_VERSION, "1.0.0"))>>,
       <<"environment", JsString(OrDefault(environ.ENVIRONMENT, "dev"))>> >>

\* hello.js:49-52
HelloSuccessLog(timestamp, requestId, processingTime) ==
    LogLine(timestamp, "INFO", "Successfully processed request",
            << <<"requestId", JsString(requestId)>>,
               <<"processingTime", JsNumber(processingTime)>> >>)

\* hello.js:63   `${processingTime}ms`
ProcessingTimeHeader(processingTime) ==
    NumberToString(processingTime) \o <<"m", "s">>

\* the success return without the preflight method in the allowed methods
HelloSuccessResponseGetOnly(requestId, processingTime, responseData) ==
    [statusCode |-> 200,
     headers |-> << <<"Content-Type", "application/json">>,
                    <<"Access-Control-Allow-Origin", "*">>,
                    <<"Access-Control-Allow-Headers",
                      "Content-Type,X-Amz-Date,Authorization,X-Api-Key,X-Amz-Security-Token">>,
                    <<"Access-Control-Allow-Methods", "GET">>,
                    <<"X-Request-Id", requestId>>,
                    <<"X-Processing-Time", ProcessingTimeHeader(processingTime)>> >>,
     body |-> JSONstringify(responseData)]

\* hello.js:55-66
HelloSuccessResponse(requestId, processingTime, responseData) ==
    [statusCode |-> 200,
     headers |-> << <<"Content-Type", "application/json">>,
                    <<"Access-Control-Allow-Origin", "*">>,
                    <<"Access-Control-Allow-Headers",
                      "Content-Type,X-Amz-Date,Authorization,X-Api-Key,X-Amz-Security-Token">>,
                    <<"Access-Control-Allow-Methods", "GET,OPTIONS">>,
                    <<"X-Request-Id", requestId>>,
                    <<"X-Processing-Time", ProcessingTimeHeader(processingTime)>> >>,
     body |-> JSONstringify(responseData)]

\* hello.js:70-74, health.js:72-76
ErrorLog(timestamp, message, requestId, error) ==
    LogLine(timestamp, "ERROR", message,
            << <<"requestId", JsString(requestId)>>,
               <<"error", JsProp(error.message)>>,
               <<"stack", JsProp(error.stack)>> >>)

\* the error return with the CORS headers of the success return
HelloErrorResponseCorsHeaders(requestId) ==
    [statusCode |-> 500,
     headers |-> << <<"Content-Type", "application/json">>,
                    <<"Access-Control-Allow-Origin", "*">>,
                    <<"Access-Control-Allow-Headers",
                      "Content-Type,X-Amz-Date,Authorization,X-Api-Key,X-Amz-Security-Token">>,
                    <<"Access-Control-Allow-Methods", "GET,OPTIONS">>,
                    <<"X-Request-Id", requestId>> >>,
     body |-> JSONstringify(
                << <<"error", JsString("Internal Server Error")>>,
                   <<"message", JsString("An error occurred while processing your request")>>,
                   <<"requestId", JsString(requestId)>> >>)]

\* hello.js:77-89
HelloErrorResponse(requestId) ==
    [statusCode |-> 500,
     headers |-> << <<"Content-Type", "application/json">>,
                    <<"Access-Control-Allow-Origin", "*">>,
                    <<"X-Request-Id", requestId>> >>,
     body |-> JSONstringify(
                << <<"error", JsString("Internal Server Error")>>,
                   <<"message", JsString("An error occurred while processing your request")>>,
                   <<"requestId", JsString(requestId)>> >>)]

\* health.js:103
maxMemory == 128 * 1024 * 1024

\* the classification with the labels of the two upper bands exchanged
checkMemorySwapped(heapUsed) ==
    IF heapUsed * 10 > 9 * maxMemory THEN "warning"
    ELSE IF heapUsed * 10 > 7 * maxMemory THEN "unhealthy"
    ELSE "healthy"

\* health.js:101-112.  percentUsed = (heapUsed / maxMemory) * 100 is compared
\* with 90 and 70; for a whole number of bytes the comparison in doubles
\* agrees with the exact one, written here without the factor 10 so that
\* the products stay within 32 bits.
checkMemory(heapUsed) ==
    IF heapUsed * 10 > 9 * maxMemory THEN "unhealthy"
    ELSE IF heapUsed * 10 > 7 * maxMemory THEN "warning"
    ELSE "healthy"

\* health.js:26-30
HealthRequestLog(timestamp, requestId, event) ==
    LogLine(timestamp, "INFO", "Health check requested",
            << <<"requestId", JsString(requestId)>>,
               <<"path", JsProp(event.path)>>,
               <<"method", JsProp(event.httpMethod)>> >>)

\* health.js:33-38
HealthChecks(heapUsed, environ) ==
    << <<"lambda", JsString("healthy")>>,
       <<"memory", JsString(checkMemory(heapUsed))>>,
       <<"environment", JsString(OrDefault(environ.ENVIRONMENT, "dev"))>>,
       <<"region", JsString(OrDefault(environ.AWS_REGION, "unknown"))>> >>

\* the overall verdict taken from the memory check alone
IsHealthyMemoryOnly(healthChecks) ==
    Get(healthChecks, "memory") # JsString("unhealthy")

\* health.js:41-43   Object.values(healthChecks).every(s => s !== 'unhealthy')
IsHealthy(healthChecks) ==
    \A i \in 1..Len(healthChecks) : healthChecks[i][2] # JsString("unhealthy")

\* health.js:45-50
HealthResponseData(timestamp, healthChecks, isHealthy, environ) ==
    << <<"status", JsString(IF isHealthy THEN "healthy" ELSE "degraded")>>,
       <<"timestamp", JsString(timestamp)>>,
       <<"checks", JsObject(healthChecks)>>,
       <<"version", JsString(OrDefault(environ.API_VERSION, "1.0.0"))>> >>

\* the completion line that reports "healthy" whatever the checks found
HealthCompletedLogAlwaysHealthy(timestamp, requestId, responseData) ==
    LogLine(timestamp, "INFO", "Health check completed",
            << <<"requestId", JsString(requestId)>>,
               <<"status", JsString("healthy")>> >>)

\* health.js:53-56
HealthCompletedLog(timestamp, requestId, responseData) ==
    LogLine(timestamp, "INFO", "Health check completed",
            << <<"requestId", JsString(requestId)>>,
               <<"status", Get(responseData, "status")>> >>)

\* the headers with the request id of API Gateway left out of the echo
HealthHeadersNoEcho(requestId) ==
    << <<"Content-Type", "application/json">>,
       <<"Access-Control-Allow-Origin", "*">>,
       <<"Cache-Control", "no-cache, no-store, must-revalidate">>,
       <<"X-Request-Id", "unknown">> >>

\* health.js:61-66, 81-86
HealthHeaders(requestId) ==
    << <<"Content-Type", "application/json">>,
       <<"Access-Control-Allow-Origin", "*">>,
       <<"Cache-Control", "no-cache, no-store, must-revalidate">>,
       <<"X-Request-Id", requestId>> >>

\* the success return with the status code left at 200
HealthSuccessResponseAlways200(requestId, isHealthy, responseData) ==
    [statusCode |-> 200,
     headers |-> HealthHeaders(requestId),
     body |-> JSONstringify(responseData)]

\* health.js:59-68
HealthSuccessResponse(requestId, isHealthy, responseData) ==
    [statusCode |-> IF isHealthy THEN 200 ELSE 503,
     headers |-> HealthHeaders(requestId),
     body |-> JSONstringify(responseData)]

\* the error return with the minimal headers of the greeting's error return
HealthErrorResponseMinimalHeaders(timestamp, requestId) ==
    [statusCode |-> 503,
     headers |-> << <<"Content-Type", "application/json">>,
                    <<"Access-Control-Allow-Origin", "*">>,
                    <<"X-Request-Id", requestId>> >>,
     body |-> JSONstringify(
                << <<"status", JsString("unhealthy")>>,
                   <<"timestamp", JsString(timestamp)>>,
                   <<"error", JsString("Health check encountered an error")>>,
                   <<"requestId", JsString(requestId)>> >>)]

\* the error return with the body left as an object
HealthErrorResponseNativeBody(timestamp, requestId) ==
    [statusCode |-> 503,
     headers |-> HealthHeaders(requestId),
     body |-> JsObject(
                << <<"status", JsString("unhealthy")>>,
                   <<"timestamp", JsString(timestamp)>>,
                   <<"error", JsString("Health check encountered an error")>>,
                   <<"requestId", JsString(requestId)>> >>)]

\* health.js:79-93
HealthErrorResponse(timestamp, requestId) ==
    [statusCode |-> 503,
     headers |-> HealthHeaders(requestId),
     body |-> JSONstringify(
                << <<"status", JsString("unhealthy")>>,
                   <<"timestamp", JsString(timestamp)>>,
                   <<"error", JsString("Health check encountered an error")>>,
                   <<"requestId", JsString(requestId)>> >>)]


(***************************************************************************)
(* State.                                                                  *)
(*   env  process.env, set before the module is loaded                     *)
(*   inv  the invocations: inv[s] holds the handler called in slot s, its  *)
(*        event, its position pc, its locals, the lines it has written to  *)
(*        console.log, and how it ended (response returned, or exception   *)
(*        thrown to the caller)                                            *)
(*   call the last call of log() made on its own, outside any invocation:  *)
(*        its arguments, the lines it handed to console.log, and what it   *)
(*        threw                                                            *)
(***************************************************************************)
VARIABLES env, inv, call

vars == <<env, inv, call>>

NoResponse == [statusCode |-> 0, headers |-> <<>>, body |-> JSONstringify(<<>>)]

IdleInvocation ==
    [handler |-> "none", event |-> NullEvent, pc |-> "idle",
     requestId |-> Undefined, startTime |-> 0, processingTime |-> 0,
     heapUsed |-> 0, healthChecks |-> <<>>, isHealthy |-> FALSE,
     responseData |-> <<>>, error |-> NoFault, logs |-> <<>>,
     response |-> NoResponse, thrown |-> NoFault]

Slots == DOMAIN inv

NoCall ==
    [level |-> Undefined, message |-> Undefined, data |-> <<>>, lines |-> <<>>,
     thrown |-> NoFault]

Init ==
    /\ env \in Environments
    /\ inv = [s \in {1} |-> IdleInvocation]
    /\ call = NoCall

Finished(s) == inv[s].pc \in {"idle", "returned", "thrown"}

\* the step of an invocation whose console lines go to a buffer at module
\* scope, which every invocation holds
StepSharedLines(s, next) ==
    /\ inv' = [t \in Slots |-> IF t = s THEN next
                               ELSE [inv[t] EXCEPT !.logs = next.logs]]
    /\ UNCHANGED <<env, call>>

\* the invocation in slot s moves to the state next
Step(s, next) ==
    /\ inv' = [inv EXCEPT ![s] = next]
    /\ UNCHANGED <<env, call>>

\* a statement inside the try block throws f: control enters the catch block
Caught(s, f) == Step(s, [inv[s] EXCEPT !.pc = "catch_log", !.error = f])

\* a statement outside the try block, or inside the catch block, throws f:
\* the async handler's promise rejects
Uncaught(s, f) == Step(s, [inv[s] EXCEPT !.pc = "thrown", !.thrown = f])

\* console.log(line)
Emit(i, line) == [i EXCEPT !.logs = Append(@, line)]

(***************************************************************************)
(* hello.js: exports.handler                                               *)
(***************************************************************************)

\* hello.js:21-22   the call, and the request id read outside the try block
HelloInvoke(s) ==
    /\ Finished(s)
    /\ \E event \in EventsFor("/hello") :
         LET i == [IdleInvocation EXCEPT !.handler = "hello", !.event = event]
         IN  IF event.isNull
             THEN Step(s, [i EXCEPT !.pc = "thrown", !.thrown = NullEventFault])
             ELSE Step(s, [i EXCEPT !.pc = "log_request",
                                    !.requestId = RequestIdOf(event)])

\* hello.js:26-31
HelloLogRequest(s) ==
    /\ inv[s].handler = "hello" /\ inv[s].pc = "log_request"
    /\ \/ \E ts \in Timestamps :
            Step(s, [Emit(inv[s], HelloRequestLog(ts, inv[s].requestId, inv[s].event))
                       EXCEPT !.pc = "start_clock"])
       \/ \E f \in Faults : Caught(s, f)

\* hello.js:34
HelloStartClock(s) ==
    /\ inv[s].handler = "hello" /\ inv[s].pc = "start_clock"
    /\ \/ \E now \in Clock :
            Step(s, [inv[s] EXCEPT !.pc = "response_data", !.startTime = now])
       \/ \E f \in Faults : Caught(s, f)

\* the payload step that stores the default version in process.env when
\* API_VERSION is unset or empty
HelloBuildResponseDataStoresDefault(s) ==
    /\ inv[s].handler = "hello" /\ inv[s].pc = "response_data"
    /\ \/ \E ts \in Timestamps :
            /\ inv' = [inv EXCEPT ![s] =
                         [inv[s] EXCEPT !.pc = "elapsed",
                            !.responseData = HelloResponseData(ts, inv[s].requestId, env)]]
            /\ env' = [env EXCEPT !.API_VERSION = OrDefault(@, "1.0.0")]
            /\ UNCHANGED call
       \/ \E f \in Faults : Caught(s, f)

\* hello.js:37-43
HelloBuildResponseData(s) ==
    /\ inv[s].handler = "hello" /\ inv[s].pc = "response_data"
    /\ \/ \E ts \in Timestamps :
            Step(s, [inv[s] EXCEPT !.pc = "elapsed",
                       !.responseData = HelloResponseData(ts, inv[s].requestId, env)])
       \/ \E f \in Faults : Caught(s, f)

\* hello.js:46
HelloElapsed(s) ==
    /\ inv[s].handler = "hello" /\ inv[s].pc = "elapsed"
    /\ \/ \E now \in Clock :
            Step(s, [inv[s] EXCEPT !.pc = "log_result",
                       !.processingTime = now - inv[s].startTime])
       \/ \E f \in Faults : Caught(s, f)

\* hello.js:49-52
HelloLogSuccess(s) ==
    /\ inv[s].handler = "hello" /\ inv[s].pc = "log_result"
    /\ \/ \E ts \in Timestamps :
            Step(s, [Emit(inv[s], HelloSuccessLog(ts, inv[s].requestId, inv[s].processingTime))
                       EXCEPT !.pc = "return"])
       \/ \E f \in Faults : Caught(s, f)

\* hello.js:55-66
HelloReturn(s) ==
    /\ inv[s].handler = "hello" /\ inv[s].pc = "return"
    /\ Step(s, [inv[s] EXCEPT !.pc = "returned",
                  !.response = HelloSuccessResponse(inv[s].requestId,
                                  inv[s].processingTime, inv[s].responseData)])

\* hello.js:70-74   the catch block logs the error; log() may throw again
HelloCatchLog(s) ==
    /\ inv[s].handler = "hello" /\ inv[s].pc = "catch_log"
    /\ \/ \E ts \in Timestamps :
            Step(s, [Emit(inv[s], ErrorLog(ts, "Failed to process request",
                                           inv[s].requestId, inv[s].error))
                       EXCEPT !.pc = "catch_return"])
       \/ \E f \in Faults : Uncaught(s, f)

\* the catch block's return that puts the failure's message in the body
HelloCatchReturnEchoesFailure(s) ==
    /\ inv[s].handler = "hello" /\ inv[s].pc = "catch_return"
    /\ Step(s, [inv[s] EXCEPT !.pc = "returned",
                  !.response =
                     [HelloErrorResponse(inv[s].requestId) EXCEPT
                        !.body = JSONstringify(
                           << <<"error", JsString("Internal Server Error")>>,
                              <<"message", JsString(inv[s].error.message)>>,
                              <<"requestId", JsString(inv[s].requestId)>> >>)]])

\* hello.js:77-89
HelloCatchReturn(s) ==
    /\ inv[s].handler = "hello" /\ inv[s].pc = "catch_return"
    /\ Step(s, [inv[s] EXCEPT !.pc = "returned",
                  !.response = HelloErrorResponse(inv[s].requestId)])

(***************************************************************************)
(* health.js: exports.handler                                              *)
(***************************************************************************)

\* health.js:21-22
HealthInvoke(s) ==
    /\ Finished(s)
    /\ \E event \in EventsFor("/health") :
         LET i == [IdleInvocation EXCEPT !.handler = "health", !.event = event]
         IN  IF event.isNull
             THEN Step(s, [i EXCEPT !.pc = "thrown", !.thrown = NullEventFault])
             ELSE Step(s, [i EXCEPT !.pc = "log_request",
                                    !.requestId = RequestIdOf(event)])

\* health.js:26-30
HealthLogRequest(s) ==
    /\ inv[s].handler = "health" /\ inv[s].pc = "log_request"
    /\ \/ \E ts \in Timestamps :
            Step(s, [Emit(inv[s], HealthRequestLog(ts, inv[s].requestId, inv[s].event))
                       EXCEPT !.pc = "checks"])
       \/ \E f \in Faults : Caught(s, f)

\* health.js:33-38   checkMemory() samples process.memoryUsage()
HealthRunChecks(s) ==
    /\ inv[s].handler = "health" /\ inv[s].pc = "checks"
    /\ \/ \E used \in HeapSamples :
            Step(s, [inv[s] EXCEPT !.pc = "response_data", !.heapUsed = used,
                       !.healthChecks = HealthChecks(used, env)])
       \/ \E f \in Faults : Caught(s, f)

\* health.js:41-50
HealthBuildResponseData(s) ==
    /\ inv[s].handler = "health" /\ inv[s].pc = "response_data"
    /\ \/ \E ts \in Timestamps :
            LET healthy == IsHealthy(inv[s].healthChecks)
            IN  Step(s, [inv[s] EXCEPT !.pc = "log_result", !.isHealthy = healthy,
                           !.responseData = HealthResponseData(ts, inv[s].healthChecks,
                                                               healthy, env)])
       \/ \E f \in Faults : Caught(s, f)

\* the completion log whose console.log writes the line before it throws
HealthLogCompletedWritesThenThrows(s) ==
    /\ inv[s].handler = "health" /\ inv[s].pc = "log_result"
    /\ \E ts \in Timestamps :
         LET written == Emit(inv[s], HealthCompletedLog(ts, inv[s].requestId,
                                                        inv[s].responseData))
         IN  \/ Step(s, [written EXCEPT !.pc = "return"])
             \/ \E f \in Faults :
                  Step(s, [written EXCEPT !.pc = "catch_log", !.error = f])

\* health.js:53-56
HealthLogCompleted(s) ==
    /\ inv[s].handler = "health" /\ inv[s].pc = "log_result"
    /\ \/ \E ts \in Timestamps :
            Step(s, [Emit(inv[s], HealthCompletedLog(ts, inv[s].requestId,
                                                     inv[s].responseData))
                       EXCEPT !.pc = "return"])
       \/ \E f \in Faults : Caught(s, f)

\* health.js:59-68
HealthReturn(s) ==
    /\ inv[s].handler = "health" /\ inv[s].pc = "return"
    /\ Step(s, [inv[s] EXCEPT !.pc = "returned",
                  !.response = HealthSuccessResponse(inv[s].requestId,
                                  inv[s].isHealthy, inv[s].responseData)])

\* health.js:72-76
HealthCatchLog(s) ==
    /\ inv[s].handler = "health" /\ inv[s].pc = "catch_log"
    /\ \/ \E ts \in Timestamps :
            Step(s, [Emit(inv[s], ErrorLog(ts, "Health check failed",
                                           inv[s].requestId, inv[s].error))
                       EXCEPT !.pc = "catch_return"])
       \/ \E f \in Faults : Uncaught(s, f)

\* health.js:79-93   the error body takes a timestamp; new Date() may throw
HealthCatchReturn(s) ==
    /\ inv[s].handler = "health" /\ inv[s].pc = "catch_return"
    /\ \/ \E ts \in Timestamps :
            Step(s, [inv[s] EXCEPT !.pc = "returned",
                       !.response = HealthErrorResponse(ts, inv[s].requestId)])
       \/ \E f \in Faults : Uncaught(s, f)

Next ==
    \E s \in Slots :
        \/ HelloInvoke(s)
        \/ HelloLogRequest(s)
        \/ HelloStartClock(s)
        \/ HelloBuildResponseData(s)
        \/ HelloElapsed(s)
        \/ HelloLogSuccess(s)
        \/ HelloReturn(s)
        \/ HelloCatchLog(s)
        \/ HelloCatchReturn(s)
        \/ HealthInvoke(s)
        \/ HealthLogRequest(s)
        \/ HealthRunChecks(s)
        \/ HealthBuildResponseData(s)
        \/ HealthLogCompleted(s)
        \/ HealthReturn(s)
        \/ HealthCatchLog(s)
        \/ HealthCatchReturn(s)

Spec == Init /\ [][Next]_vars

TypeOK ==
    /\ env \in Environments
    /\ \A s \in Slots : inv[s].handler \in {"none", "hello", "health"}


(***************************************************************************)
(* Reading a finished invocation.                                          *)
(***************************************************************************)
Returned(s) == inv[s].pc = "returned"

Threw(s) == inv[s].pc = "thrown"

\* the response was returned from the try block: no step of the invocation
\* threw
ReturnedNormally(s) == Returned(s) /\ inv[s].error = NoFault

\* the response was returned from the catch block
ReturnedFromCatch(s) == Returned(s) /\ inv[s].error # NoFault

Body(s) == JSONparse(inv[s].response.body)

HasHeader(s, name) ==
    \E k \in 1..Len(inv[s].response.headers) : inv[s].response.headers[k][1] = name

Header(s, name) ==
    inv[s].response.headers[
        CHOOSE k \in 1..Len(inv[s].response.headers) :
            inv[s].response.headers[k][1] = name][2]

\* process.memoryUsage() returned in this invocation
Sampled(s) == inv[s].handler = "health" /\ inv[s].healthChecks # <<>>

\* heap usage as a share of 128 MiB, in tenths
AboveTenths(heapUsed, tenths) == heapUsed * 10 > tenths * (128 * 1024 * 1024)

\* statusCode, headers and a JSON string body are all there
WellFormed(s) ==
    /\ inv[s].response.statusCode \in {200, 500, 503}
    /\ HasHeader(s, "Content-Type")
    /\ HasHeader(s, "X-Request-Id")
    /\ inv[s].response.body.t = "string"
    /\ Body(s) # <<>>

\* text is one or more decimal digits followed by "ms"
IsNonNegativeMs(text) ==
    /\ Len(text) >= 3
    /\ text[Len(text) - 1] = "m" /\ text[Len(text)] = "s"
    /\ \A k \in 1..(Len(text) - 2) :
          text[k] \in {"0", "1", "2", "3", "4", "5", "6", "7", "8", "9"}

(***************************************************************************)
(* C1.  Health handler, upper band.                                        *)
(***************************************************************************)

\* C1 as stated: whenever memory sampling succeeded with heap usage above
\* 90% of 128 MiB, the response has checks.memory = "unhealthy", status =
\* "degraded" and statusCode = 503.
C1_UpperBand_AsStated ==
    \A s \in Slots :
        (Returned(s) /\ Sampled(s) /\ AboveTenths(inv[s].heapUsed, 9))
        => /\ Get(Get(Body(s), "checks").o, "memory") = JsString("unhealthy")
           /\ Get(Body(s), "status") = JsString("degraded")
           /\ inv[s].response.statusCode = 503

\* C1 amended: whenever memory sampling succeeded with heap usage above 90%
\* of 128 MiB and no later step of the invocation failed, the response has
\* checks.memory = "unhealthy", status = "degraded" and statusCode = 503;
\* when a later step failed the statusCode is 503 all the same.
C1_UpperBand ==
    \A s \in Slots :
        (Returned(s) /\ Sampled(s) /\ AboveTenths(inv[s].heapUsed, 9))
        => /\ inv[s].response.statusCode = 503
           /\ ReturnedNormally(s)
              => /\ Get(Get(Body(s), "checks").o, "memory") = JsString("unhealthy")
                 /\ Get(Body(s), "status") = JsString("degraded")

C1_Witness ==
    \E s \in Slots :
        /\ ReturnedNormally(s) /\ Sampled(s)
        /\ inv[s].heapUsed = 120795956
        /\ inv[s].response.statusCode = 503

(***************************************************************************)
(* C2.  Health handler, middle band.                                       *)
(***************************************************************************)

\* C2: whenever memory sampling succeeded with heap usage above 70% and at
\* most 90% of 128 MiB, whatever ENVIRONMENT, region and API_VERSION are, a
\* response returned without any failure has checks.memory = "warning",
\* status = "healthy" and statusCode = 200.
C2_MiddleBand ==
    \A s \in Slots :
        (ReturnedNormally(s) /\ Sampled(s)
            /\ AboveTenths(inv[s].heapUsed, 7) /\ ~AboveTenths(inv[s].heapUsed, 9))
        => /\ Get(Get(Body(s), "checks").o, "memory") = JsString("warning")
           /\ Get(Body(s), "status") = JsString("healthy")
           /\ inv[s].response.statusCode = 200

(***************************************************************************)
(* C3.  Health handler, lower band.                                        *)
(***************************************************************************)

\* C3: whenever memory sampling succeeded with heap usage at most 70% of
\* 128 MiB, whatever ENVIRONMENT, region and API_VERSION are, a response
\* returned without any failure has checks.memory = "healthy", status =
\* "healthy" and statusCode = 200.
C3_LowerBand ==
    \A s \in Slots :
        (ReturnedNormally(s) /\ Sampled(s) /\ ~AboveTenths(inv[s].heapUsed, 7))
        => /\ Get(Get(Body(s), "checks").o, "memory") = JsString("healthy")
           /\ Get(Body(s), "status") = JsString("healthy")
           /\ inv[s].response.statusCode = 200

(***************************************************************************)
(* C4.  Greeting handler, error path.                                      *)
(***************************************************************************)

\* C4: a greeting invocation on an event object in which a step raised a
\* failure ends by returning statusCode 500 with the body { error, message,
\* requestId }.
C4_GreetingErrorPath ==
    \A s \in Slots :
        (inv[s].handler = "hello" /\ Finished(s) /\ ~inv[s].event.isNull
            /\ (inv[s].error # NoFault \/ inv[s].thrown # NoFault))
        => /\ Returned(s)
           /\ inv[s].response.statusCode = 500
           /\ Body(s) = << <<"error", JsString("Internal Server Error")>>,
                           <<"message", JsString("An error occurred while processing your request")>>,
                           <<"requestId", JsString(inv[s].requestId)>> >>

(***************************************************************************)
(* C5.  Health handler, error path.                                        *)
(***************************************************************************)

\* C5: a health invocation on an event object in which a step raised a
\* failure ends by returning statusCode 503 with the body { status:
\* "unhealthy", timestamp, error, requestId }, without checks and without
\* version.
C5_HealthErrorPath ==
    \A s \in Slots :
        (inv[s].handler = "health" /\ Finished(s) /\ ~inv[s].event.isNull
            /\ (inv[s].error # NoFault \/ inv[s].thrown # NoFault))
        => /\ Returned(s)
           /\ inv[s].response.statusCode = 503
           /\ Keys(Body(s)) = <<"status", "timestamp", "error", "requestId">>
           /\ Get(Body(s), "status") = JsString("unhealthy")
           /\ Get(Body(s), "error") = JsString("Health check encountered an error")
           /\ Get(Body(s), "requestId") = JsString(inv[s].requestId)

(***************************************************************************)
(* C6.  No exception reaches the caller.                                   *)
(***************************************************************************)

\* C6: no invocation of either handler ends by throwing; every invocation
\* that ends has returned a response.
C6_NeverThrows ==
    \A s \in Slots : ~Threw(s)

(***************************************************************************)
(* C7.  Greeting handler, success.                                         *)
(***************************************************************************)

\* C7: a greeting invocation on a valid input in which no step failed ends
\* by returning statusCode 200 and a body whose message is "Hello World!".
C7_GreetingSuccess ==
    \A s \in Slots :
        (inv[s].handler = "hello" /\ inv[s].pc \in {"returned", "thrown"}
            /\ ~inv[s].event.isNull
            /\ inv[s].error = NoFault /\ inv[s].thrown = NoFault)
        => /\ Returned(s)
           /\ inv[s].response.statusCode = 200
           /\ Get(Body(s), "message") = JsString("Hello World!")

C7_Witness ==
    \E s \in Slots :
        /\ inv[s].handler = "hello" /\ ReturnedNormally(s)
        /\ inv[s].event.httpMethod = "POST"
        /\ inv[s].response.statusCode = 200

(***************************************************************************)
(* C8.  Request id of the greeting response.                               *)
(***************************************************************************)

\* C8: in every greeting response, 200 or 500, body.requestId equals
\* requestContext.requestId when the input carries that field, whatever
\* string it is, and "unknown" when it does not.
C8_RequestIdEcho ==
    \A s \in Slots :
        (inv[s].handler = "hello" /\ Returned(s))
        => Get(Body(s), "requestId") =
              JsString(IF inv[s].event.requestContext.requestId # Undefined
                       THEN inv[s].event.requestContext.requestId
                       ELSE "unknown")

(***************************************************************************)
(* C9.  Missing requestContext.                                            *)
(***************************************************************************)

\* C9: for an input without requestContext, reading requestId and sourceIp
\* raises nothing: an exception leaves the handler only when a runtime
\* capability failed inside the catch block, an invocation in which no
\* capability failed returns, and every response is well formed and carries
\* the request id "unknown" (in X-Request-Id, and in the body where the body
\* has a requestId).
C9_MissingRequestContext ==
    \A s \in Slots :
        (inv[s].handler \in {"hello", "health"} /\ ~inv[s].event.isNull
            /\ ~inv[s].event.requestContext.present)
        => /\ inv[s].error \in Faults \cup {NoFault}
           /\ inv[s].thrown \in Faults \cup {NoFault}
           /\ Threw(s) => inv[s].error \in Faults
           /\ Returned(s)
              => /\ WellFormed(s)
                 /\ Header(s, "X-Request-Id") = "unknown"
                 /\ Has(Body(s), "requestId")
                    => Get(Body(s), "requestId") = JsString("unknown")

C9_Witness ==
    \E s \in Slots :
        /\ inv[s].handler = "health" /\ ReturnedNormally(s)
        /\ ~inv[s].event.requestContext.present
        /\ Header(s, "X-Request-Id") = "unknown"

(***************************************************************************)
(* C10.  X-Processing-Time.                                                *)
(***************************************************************************)

\* C10: in every greeting response that carries X-Processing-Time, whatever
\* the two clock samples were, the header is a non-negative integer
\* followed by "ms".
C10_ProcessingTimeFormat ==
    \A s \in Slots :
        (inv[s].handler = "hello" /\ Returned(s) /\ HasHeader(s, "X-Processing-Time"))
        => IsNonNegativeMs(Header(s, "X-Processing-Time"))

(***************************************************************************)
(* C11.  Configuration in the greeting body.                               *)
(***************************************************************************)

\* x is a string the variable was set to (unset reads as undefined)
IsSet(x) == x # Undefined

\* C11: in every successful greeting response, body.version equals
\* API_VERSION whenever it is set, to whatever string, and "1.0.0"
\* otherwise, and body.environment equals ENVIRONMENT whenever it is set and
\* "dev" otherwise.
C11_GreetingConfiguration ==
    \A s \in Slots :
        (inv[s].handler = "hello" /\ ReturnedNormally(s))
        => /\ Get(Body(s), "version") =
                JsString(IF IsSet(env.API_VERSION) THEN env.API_VERSION ELSE "1.0.0")
           /\ Get(Body(s), "environment") =
                JsString(IF IsSet(env.ENVIRONMENT) THEN env.ENVIRONMENT ELSE "dev")

(***************************************************************************)
(* C12.  Status codes.                                                     *)
(***************************************************************************)

\* C12: every greeting response has statusCode 200 or 500, every health
\* response has statusCode 200 or 503, and a health response, from the try
\* block or from the catch block, has statusCode 200 exactly when its
\* body.status is "healthy".
C12_StatusCodes ==
    \A s \in Slots :
        Returned(s)
        => /\ inv[s].handler = "hello" => inv[s].response.statusCode \in {200, 500}
           /\ inv[s].handler = "health"
              => /\ inv[s].response.statusCode \in {200, 503}
                 /\ inv[s].response.statusCode = 200
                    <=> Get(Body(s), "status") = JsString("healthy")

C12_Witness ==
    \E s \in Slots :
        /\ inv[s].handler = "health" /\ ReturnedNormally(s)
        /\ inv[s].response.statusCode = 503
        /\ Get(Body(s), "status") = JsString("degraded")
        /\ Get(Get(Body(s), "checks").o, "memory") = JsString("warning")

(***************************************************************************)
(* C13.  Overall health status and the checks map.                         *)
(***************************************************************************)

CheckNames == <<"lambda", "memory", "environment", "region">>

\* C13: in every health response returned from the try block, body.status
\* is "healthy" when none of the four values of checks is "unhealthy" and
\* "degraded" otherwise, and checks has exactly the members lambda, memory,
\* environment and region, with lambda "healthy" and memory the band of the
\* sampled heap usage.
C13_OverallStatus ==
    \A s \in Slots :
        (inv[s].handler = "health" /\ ReturnedNormally(s))
        => LET checks == Get(Body(s), "checks").o
           IN  /\ Keys(checks) = CheckNames
               /\ Get(checks, "lambda") = JsString("healthy")
               /\ Get(checks, "memory") =
                    JsString(IF AboveTenths(inv[s].heapUsed, 9) THEN "unhealthy"
                             ELSE IF AboveTenths(inv[s].heapUsed, 7) THEN "warning"
                             ELSE "healthy")
               /\ Get(Body(s), "status") =
                    JsString(IF \A k \in 1..4 : Get(checks, CheckNames[k]) # JsString("unhealthy")
                             THEN "healthy" ELSE "degraded")

C13_Witness ==
    \E s \in Slots :
        /\ inv[s].handler = "health" /\ ReturnedNormally(s)
        /\ Get(Get(Body(s), "checks").o, "memory") = JsString("healthy")
        /\ Get(Get(Body(s), "checks").o, "environment") = JsString("unhealthy")
        /\ Get(Body(s), "status") = JsString("degraded")

(***************************************************************************)
(* C14.  Shape of the response.                                            *)
(***************************************************************************)

\* the value of the header is a text: a string, and for the one header
\* built by a template literal the characters of a string
IsText(name, value) ==
    IF name = "X-Processing-Time"
    THEN \A k \in 1..Len(value) : value[k] \in STRING
    ELSE value \in STRING

\* C14: every response of either handler, from the try block or from the
\* catch block, has exactly the fields statusCode, headers and body, with an
\* integer statusCode, headers that map names to texts, and a body that is
\* a JSON string and not an object.
C14_ResponseShape ==
    \A s \in Slots :
        Returned(s)
        => /\ DOMAIN inv[s].response = {"statusCode", "headers", "body"}
           /\ inv[s].response.statusCode \in Int
           /\ \A k \in 1..Len(inv[s].response.headers) :
                 /\ Len(inv[s].response.headers[k]) = 2
                 /\ inv[s].response.headers[k][1] \in STRING
                 /\ IsText(inv[s].response.headers[k][1], inv[s].response.headers[k][2])
           /\ inv[s].response.body.t = "string"
           /\ DOMAIN inv[s].response.body = {"t", "json"}

C14_Witness ==
    \E s \in Slots :
        /\ inv[s].handler = "health" /\ ReturnedFromCatch(s)
        /\ inv[s].response.body.t = "string"
        /\ Len(inv[s].response.headers) = 4

(***************************************************************************)
(* C15.  Every invocation that returns has logged.                         *)
(***************************************************************************)

PairEnvironments ==
    { [API_VERSION |-> Undefined, ENVIRONMENT |-> Undefined, AWS_REGION |-> Undefined],
      [API_VERSION |-> "2.0.0", ENVIRONMENT |-> "prod", AWS_REGION |-> "us-west-2"] }

InitPair ==
    /\ env \in PairEnvironments
    /\ inv = [s \in {1, 2} |-> IdleInvocation]
    /\ call = NoCall

PairScope ==
    \A s \in Slots :
        /\ inv[s].error = NoFault /\ inv[s].thrown = NoFault
        /\ inv[s].handler # "none" => inv[s].event.requestContext.requestId = "abc-1"

NextPair == Next /\ PairScope'

SpecPair == InitPair /\ [][NextPair]_vars

(***************************************************************************)
(* C16.  No branching on the HTTP method.                                  *)
(***************************************************************************)

\* the Date.now() and new Date() values two greeting invocations saw agree
SameClock(s, t) ==
    /\ inv[s].startTime = inv[t].startTime
    /\ inv[s].processingTime = inv[t].processingTime
    /\ Get(inv[s].responseData, "timestamp") = Get(inv[t].responseData, "timestamp")

\* C16: two greeting invocations whose events differ at most in httpMethod
\* and that saw the same configuration and the same clock values return
\* statusCode 200 and the same statusCode, headers and body.
C16_MethodIndependence ==
    \A s, t \in Slots :
        (/\ inv[s].handler = "hello" /\ ReturnedNormally(s)
         /\ inv[t].handler = "hello" /\ ReturnedNormally(t)
         /\ [inv[s].event EXCEPT !.httpMethod = inv[t].event.httpMethod] = inv[t].event
         /\ SameClock(s, t))
        => /\ inv[s].response.statusCode = 200
           /\ inv[s].response = inv[t].response

C16_Witness ==
    \E s, t \in Slots :
        /\ inv[s].handler = "hello" /\ ReturnedNormally(s)
        /\ inv[t].handler = "hello" /\ ReturnedNormally(t)
        /\ inv[s].event.httpMethod = "GET" /\ inv[t].event.httpMethod = "DELETE"
        /\ SameClock(s, t)
        /\ inv[s].response = inv[t].response

(***************************************************************************)
(* C17.  Headers of the health response.                                   *)
(***************************************************************************)

\* C17: every health response, healthy, degraded or from the catch block,
\* carries Content-Type application/json, Access-Control-Allow-Origin *,
\* Cache-Control "no-cache, no-store, must-revalidate" and X-Request-Id
\* equal to the request id of the invocation.
C17_HealthHeaders ==
    \A s \in Slots :
        (inv[s].handler = "health" /\ Returned(s))
        => /\ HasHeader(s, "Content-Type")
           /\ Header(s, "Content-Type") = "application/json"
           /\ HasHeader(s, "Access-Control-Allow-Origin")
           /\ Header(s, "Access-Control-Allow-Origin") = "*"
           /\ HasHeader(s, "Cache-Control")
           /\ Header(s, "Cache-Control") = "no-cache, no-store, must-revalidate"
           /\ HasHeader(s, "X-Request-Id")
           /\ Header(s, "X-Request-Id") = inv[s].requestId
           /\ inv[s].requestId = OrDefault(inv[s].event.requestContext.requestId, "unknown")

C17_Witness ==
    \E s \in Slots :
        /\ inv[s].handler = "health" /\ ReturnedFromCatch(s)
        /\ inv[s].event.requestContext.requestId = "abc-1"
        /\ Header(s, "X-Request-Id") = "abc-1"
        /\ Header(s, "Cache-Control") = "no-cache, no-store, must-revalidate"

(***************************************************************************)
(* C18.  Headers of the successful greeting response.                      *)
(***************************************************************************)

\* C18: every 200 greeting response carries Content-Type application/json,
\* Access-Control-Allow-Origin *, the Access-Control-Allow-Headers list that
\* starts with Content-Type, the Access-Control-Allow-Methods list
\* GET,OPTIONS, X-Request-Id equal to the request id of the invocation, and
\* X-Processing-Time.
C18_GreetingHeaders ==
    \A s \in Slots :
        (inv[s].handler = "hello" /\ Returned(s) /\ inv[s].response.statusCode = 200)
        => /\ HasHeader(s, "Content-Type")
           /\ Header(s, "Content-Type") = "application/json"
           /\ HasHeader(s, "Access-Control-Allow-Origin")
           /\ Header(s, "Access-Control-Allow-Origin") = "*"
           /\ HasHeader(s, "Access-Control-Allow-Headers")
           /\ Header(s, "Access-Control-Allow-Headers") =
                "Content-Type,X-Amz-Date,Authorization,X-Api-Key,X-Amz-Security-Token"
           /\ HasHeader(s, "Access-Control-Allow-Methods")
           /\ Header(s, "Access-Control-Allow-Methods") = "GET,OPTIONS"
           /\ HasHeader(s, "X-Request-Id")
           /\ Header(s, "X-Request-Id") = inv[s].requestId
           /\ HasHeader(s, "X-Processing-Time")

C18_Witness ==
    \E s \in Slots :
        /\ inv[s].handler = "hello" /\ Returned(s)
        /\ inv[s].response.statusCode = 200
        /\ inv[s].event.httpMethod = "OPTIONS"
        /\ Header(s, "X-Request-Id") = "abc-1"

(***************************************************************************)
(* C19.  Configuration in the health body.                                 *)
(***************************************************************************)

\* C19: in every health response returned from the try block,
\* checks.environment equals ENVIRONMENT when it is set and "dev" otherwise,
\* checks.region equals AWS_REGION when it is set and "unknown" otherwise,
\* and body.version equals API_VERSION when it is set and "1.0.0" otherwise.
C19_HealthConfiguration ==
    \A s \in Slots :
        (inv[s].handler = "health" /\ ReturnedNormally(s))
        => /\ Get(Get(Body(s), "checks").o, "environment") =
                JsString(IF IsSet(env.ENVIRONMENT) THEN env.ENVIRONMENT ELSE "dev")
           /\ Get(Get(Body(s), "checks").o, "region") =
                JsString(IF IsSet(env.AWS_REGION) THEN env.AWS_REGION ELSE "unknown")
           /\ Get(Body(s), "version") =
                JsString(IF IsSet(env.API_VERSION) THEN env.API_VERSION ELSE "1.0.0")

(***************************************************************************)
(* C20.  Concurrent invocations are independent.                           *)
(***************************************************************************)

\* the timestamp a log line or a payload was given
TimestampOf(members) == Get(members, "timestamp").s

\* what the greeting handler returns and logs when it runs alone on the
\* event, process.env and clock values of the invocation in slot s
GreetingAlone(s) ==
    LET requestId == RequestIdOf(inv[s].event)
        data == HelloResponseData(TimestampOf(inv[s].responseData), requestId, env)
    IN  [response |-> HelloSuccessResponse(requestId, inv[s].processingTime, data),
         logs |-> << HelloRequestLog(TimestampOf(JSONparse(inv[s].logs[1])),
                                     requestId, inv[s].event),
                     HelloSuccessLog(TimestampOf(JSONparse(inv[s].logs[2])),
                                     requestId, inv[s].processingTime) >>]

\* what the health handler returns and logs when it runs alone on the
\* event, process.env and heap sample of the invocation in slot s
HealthAlone(s) ==
    LET requestId == RequestIdOf(inv[s].event)
        checks == HealthChecks(inv[s].heapUsed, env)
        data == HealthResponseData(TimestampOf(inv[s].responseData), checks,
                                   IsHealthy(checks), env)
    IN  [response |-> HealthSuccessResponse(requestId, IsHealthy(checks), data),
         logs |-> << HealthRequestLog(TimestampOf(JSONparse(inv[s].logs[1])),
                                      requestId, inv[s].event),
                     HealthCompletedLog(TimestampOf(JSONparse(inv[s].logs[2])),
                                        requestId, data) >>]

\* a step belongs to one invocation: it leaves the other invocations and
\* process.env as they were
OneInvocationSteps ==
    /\ env' = env
    /\ \A s, t \in Slots : (s # t /\ inv'[s] # inv[s]) => inv'[t] = inv[t]

\* C20: in every interleaving of two invocations, a step of one invocation
\* changes nothing the other holds, and each invocation returns the
\* response and has written the log lines it produces when it runs alone
\* with the same event, configuration, clock values and heap sample.
C20_Independence ==
    /\ [][OneInvocationSteps]_vars
    /\ [](\A s \in Slots :
            ReturnedNormally(s)
            => LET alone == IF inv[s].handler = "hello"
                            THEN GreetingAlone(s) ELSE HealthAlone(s)
               IN  /\ Len(inv[s].logs) = 2
                   /\ inv[s].response = alone.response
                   /\ inv[s].logs = alone.logs)

\* one invocation has returned while the other is between its statements
C20_Witness ==
    \E s, t \in Slots :
        /\ s # t
        /\ inv[s].handler = "hello" /\ ReturnedNormally(s)
        /\ inv[s].processingTime = 1
        /\ inv[t].handler = "health" /\ inv[t].pc = "log_result"
        /\ inv[t].heapUsed = 120795956

(***************************************************************************)
(* C21.  One response per invocation, no retry.                            *)
(***************************************************************************)

\* the lines of the invocation in slot s written at the given level
LinesAt(s, level) ==
    { k \in 1..Len(inv[s].logs) :
        Get(JSONparse(inv[s].logs[k]), "level") = JsString(level) }

\* C21: every invocation that has ended has returned one response, a
\* response is only ever held by an invocation that has ended, and no
\* invocation writes more than one ERROR record.
C21_OneResponseNoRetry ==
    \A s \in Slots :
        /\ inv[s].pc \in {"returned", "thrown"}
              => /\ Returned(s)
                 /\ inv[s].response.statusCode \in {200, 500, 503}
        /\ inv[s].response # NoResponse => Returned(s)
        /\ Cardinality(LinesAt(s, "ERROR")) <= 1

(***************************************************************************)
(* C22.  The ERROR record of a failed step.                                *)
(***************************************************************************)

\* the last line the invocation in slot s has written
LastLine(s) == JSONparse(inv[s].logs[Len(inv[s].logs)])

\* the line reports the failure caught in slot s at level ERROR
ReportsFailure(s, line) ==
    /\ Get(line, "level") = JsString("ERROR")
    /\ Get(line, "requestId") = JsString(inv[s].requestId)
    /\ Get(line, "error") = JsString(inv[s].error.message)
    /\ IF inv[s].error.stack # Undefined
       THEN Get(line, "stack") = JsString(inv[s].error.stack)
       ELSE ~Has(line, "stack")
    /\ inv[s].handler = "health"
          => Get(line, "message") = JsString("Health check failed")

\* C22: no ERROR record is written before a step has failed; once a step
\* of the try block has failed and the invocation has moved past its error
\* logging (to building the error response, or to its end), the last line
\* it wrote is an ERROR record with the request id, the failure's message
\* and, when there is one, its stack, "Health check failed" being the
\* message in the health handler; the record is there before the error
\* response is.
C22_ErrorRecord ==
    \A s \in Slots :
        /\ inv[s].error = NoFault => LinesAt(s, "ERROR") = {}
        /\ (inv[s].error # NoFault /\ inv[s].pc \in {"catch_return", "returned", "thrown"})
              => /\ Len(inv[s].logs) >= 1
                 /\ ReportsFailure(s, LastLine(s))
        /\ inv[s].pc = "catch_return" => inv[s].response = NoResponse

(***************************************************************************)
(* C23.  Order of the log records when no step fails.                      *)
(***************************************************************************)

\* the record has the member when the value is defined, and lacks it when
\* the value is undefined
Carries(line, key, value) ==
    IF value = Undefined THEN ~Has(line, key) ELSE Get(line, key) = JsString(value)

\* the first line of slot s is the INFO record of the request
RequestRecordFirst(s) ==
    LET line == JSONparse(inv[s].logs[1])
    IN  /\ Get(line, "level") = JsString("INFO")
        /\ Carries(line, "requestId", inv[s].requestId)
        /\ Carries(line, "method", inv[s].event.httpMethod)
        /\ Carries(line, "path", inv[s].event.path)
        /\ inv[s].handler = "hello"
              => Carries(line, "sourceIp", inv[s].event.requestContext.sourceIp)

\* C23: while no step has failed, an invocation has written nothing before
\* its request record; the request record is the only line while the clock
\* (greeting) or the memory (health) is sampled and until the completion
\* record; from the completion record on there are exactly two lines, both
\* INFO, the second carrying the elapsed time (greeting) or the status the
\* body reports (health).
C23_LogOrder ==
    \A s \in Slots :
        (inv[s].handler # "none" /\ inv[s].error = NoFault /\ inv[s].thrown = NoFault)
        => /\ inv[s].pc = "log_request" => inv[s].logs = <<>>
           /\ inv[s].pc \in {"start_clock", "checks", "response_data", "elapsed", "log_result"}
                 => /\ Len(inv[s].logs) = 1
                    /\ RequestRecordFirst(s)
           /\ inv[s].pc \in {"return", "returned"}
                 => /\ Len(inv[s].logs) = 2
                    /\ RequestRecordFirst(s)
                    /\ Get(LastLine(s), "level") = JsString("INFO")
                    /\ inv[s].handler = "hello"
                          => Get(LastLine(s), "processingTime") = JsNumber(inv[s].processingTime)
                    /\ inv[s].handler = "health"
                          => Get(LastLine(s), "status") = Get(inv[s].responseData, "status")
           /\ Returned(s) /\ inv[s].handler = "health"
                 => Get(LastLine(s), "status") = Get(Body(s), "status")

\* a health invocation that returned "degraded" after both records
C23_Witness ==
    \E s \in Slots :
        /\ inv[s].handler = "health" /\ ReturnedNormally(s)
        /\ Len(inv[s].logs) = 2
        /\ Get(LastLine(s), "status") = JsString("degraded")
        /\ inv[s].response.statusCode = 503

(***************************************************************************)
(* C24.  Overall health status and the memory status.                      *)
(***************************************************************************)

\* C24: in every health response returned without any failure, whatever
\* ENVIRONMENT and the region are, statusCode is 503 exactly when
\* checks.memory is "unhealthy", and status is "degraded" exactly then.
C24_MemoryAloneDecides ==
    \A s \in Slots :
        (inv[s].handler = "health" /\ ReturnedNormally(s))
        => LET memory == Get(Get(Body(s), "checks").o, "memory")
           IN  /\ inv[s].response.statusCode = 503 <=> memory = JsString("unhealthy")
               /\ Get(Body(s), "status") = JsString("degraded")
                     <=> memory = JsString("unhealthy")

(***************************************************************************)
(* C25.  Headers of the greeting handler's 500 response.                   *)
(***************************************************************************)

\* C25: every 500 response of the greeting handler has exactly the headers
\* Content-Type, Access-Control-Allow-Origin and X-Request-Id, so none of
\* X-Processing-Time, Access-Control-Allow-Methods and
\* Access-Control-Allow-Headers.
C25_MinimalErrorHeaders ==
    \A s \in Slots :
        (inv[s].handler = "hello" /\ Returned(s) /\ inv[s].response.statusCode = 500)
        => /\ Keys(inv[s].response.headers) =
                 <<"Content-Type", "Access-Control-Allow-Origin", "X-Request-Id">>
           /\ ~HasHeader(s, "X-Processing-Time")
           /\ ~HasHeader(s, "Access-Control-Allow-Methods")
           /\ ~HasHeader(s, "Access-Control-Allow-Headers")

\* a 500 returned after the elapsed time had already been computed: the
\* completion log failed
C25_Witness ==
    \E s \in Slots :
        /\ inv[s].handler = "hello" /\ ReturnedFromCatch(s)
        /\ inv[s].response.statusCode = 500
        /\ inv[s].responseData # <<>> /\ inv[s].processingTime = 1

(***************************************************************************)
(* The logger on its own.  log(level, message, data) is called with        *)
(* arguments of every kind, not only those the handlers pass.              *)
(***************************************************************************)
Levels == {"INFO", "ERROR", "WARN", "DEBUG"}

Messages == {"Processing Hello World request", "Health check failed", ""}

\* context objects: empty, those of the handlers' calls (a member may be
\* undefined), one with a nested object, and objects with a member named
\* like a member of the record
Contexts ==
    { <<>>,
      << <<"requestId", JsString("abc-1")>> >>,
      << <<"requestId", JsString("abc-1")>>, <<"processingTime", JsNumber(2)>> >>,
      << <<"requestId", JsString("unknown")>>, <<"path", JsString("/hello")>>,
         <<"method", JsString("GET")>>, <<"sourceIp", JsUndefined>> >>,
      << <<"requestId", JsString("abc-1")>>, <<"error", JsString("Test error")>>,
         <<"stack", JsUndefined>> >>,
      << <<"requestId", JsString("abc-1")>>, <<"status", JsString("degraded")>> >>,
      << <<"checks", JsObject(<< <<"memory", JsString("warning")>> >>)>> >>,
      << <<"level", JsString("TRACE")>> >>,
      << <<"requestId", JsString("abc-1")>>, <<"message", JsString("details")>> >>,
      << <<"timestamp", JsString("yesterday")>> >> }

InitLog ==
    /\ env = [API_VERSION |-> Undefined, ENVIRONMENT |-> Undefined,
              AWS_REGION |-> Undefined]
    /\ inv = [s \in {1} |-> IdleInvocation]
    /\ call = NoCall

\* hello.js:7-14, health.js:7-14   one call of log(): new Date() or
\* console.log throws, or the line is handed to console.log
LogCall ==
    /\ \E level \in Levels, message \in Messages, data \in Contexts :
         LET c == [NoCall EXCEPT !.level = level, !.message = message, !.data = data]
         IN  \/ \E ts \in Timestamps :
                  call' = [c EXCEPT !.lines = <<LogLine(ts, level, message, data)>>]
             \/ \E f \in Faults : call' = [c EXCEPT !.thrown = f]
    /\ UNCHANGED <<env, inv>>

SpecLog == InitLog /\ [][LogCall]_vars

(***************************************************************************)
(* C26.  The structured logger.                                            *)
(***************************************************************************)

C27_ConfigurationReadOnly ==
    [][/\ env'.API_VERSION = env.API_VERSION
       /\ env'.ENVIRONMENT = env.ENVIRONMENT
       /\ env'.AWS_REGION = env.AWS_REGION]_vars

\* a health invocation that read the three variables and then went through
\* the catch block
C27_Witness ==
    \E s \in Slots :
        /\ inv[s].handler = "health" /\ ReturnedFromCatch(s)
        /\ inv[s].responseData # <<>>
        /\ env.API_VERSION = "2.0.0" /\ env.ENVIRONMENT = "prod"
        /\ env.AWS_REGION = "us-west-2"

(***************************************************************************)
(* C28.  One request id per invocation.                                    *)
(***************************************************************************)

\* C28: in every response, from the try block or from the catch block, the
\* X-Request-Id header is the request id derived from the event; every
\* line the invocation has written carries that id as requestId, and so
\* does the body when it has a requestId member.
C28_OneRequestId ==
    \A s \in Slots :
        inv[s].handler # "none" /\ ~inv[s].event.isNull
        => LET requestId == RequestIdOf(inv[s].event)
           IN  /\ \A k \in 1..Len(inv[s].logs) :
                     Get(JSONparse(inv[s].logs[k]), "requestId") = JsString(requestId)
               /\ Returned(s)
                     => /\ HasHeader(s, "X-Request-Id")
                        /\ Header(s, "X-Request-Id") = requestId
                        /\ Has(Body(s), "requestId")
                              => Get(Body(s), "requestId") = JsString(requestId)

\* a health error response for a request that carried an id: the id is in
\* the header, the body and both lines
C28_Witness ==
    \E s \in Slots :
        /\ inv[s].handler = "health" /\ ReturnedFromCatch(s)
        /\ inv[s].event.requestContext.requestId = "abc-1"
        /\ Len(inv[s].logs) = 2
        /\ Header(s, "X-Request-Id") = "abc-1"
        /\ Get(Body(s), "requestId") = JsString("abc-1")

(***************************************************************************)
(* Two invocations whose steps may fail.  Both slots receive the same      *)
(* request; every capability call may complete or throw, in the try block  *)
(* and in the catch block.                                                 *)
(***************************************************************************)
InitFaultPair ==
    /\ env = [API_VERSION |-> "2.0.0", ENVIRONMENT |-> "prod", AWS_REGION |-> "us-west-2"]
    /\ inv = [s \in {1, 2} |-> IdleInvocation]
    /\ call = NoCall

\* the request of both slots: GET with a request id and a caller
FaultPairScope ==
    \A s \in Slots :
        inv[s].handler # "none"
        => /\ ~inv[s].event.isNull
           /\ inv[s].event.httpMethod = "GET"
           /\ inv[s].event.requestContext.requestId = "abc-1"

NextFaultPair == Next /\ FaultPairScope'

SpecFaultPair == InitFaultPair /\ [][NextFaultPair]_vars

(***************************************************************************)
(* C29.  Error responses do not expose the failure.                        *)
(***************************************************************************)

\* the members of a body other than its timestamp
WithoutTimestamp(members) ==
    SelectSeq(members, LAMBDA m : m[1] # "timestamp")

\* the text occurs as a header value or as a member of the body of the
\* response in slot s
InResponse(s, text) ==
    \/ \E k \in 1..Len(inv[s].response.headers) : inv[s].response.headers[k][2] = text
    \/ \E k \in 1..Len(Body(s)) : Body(s)[k][2] = JsString(text)

\* C29: two invocations of the same handler on the same request that both
\* return from the catch block return the same statusCode, the same
\* headers and, the timestamp aside, the same body, whatever their
\* failures were; neither the message nor the stack of the failure occurs
\* in the response; the ERROR record holds the message.
C29_ErrorResponseOpaque ==
    /\ \A s, t \in Slots :
          (/\ ReturnedFromCatch(s) /\ ReturnedFromCatch(t)
           /\ inv[s].handler = inv[t].handler /\ inv[s].event = inv[t].event)
          => /\ inv[s].response.statusCode = inv[t].response.statusCode
             /\ inv[s].response.headers = inv[t].response.headers
             /\ WithoutTimestamp(Body(s)) = WithoutTimestamp(Body(t))
    /\ \A s \in Slots :
          ReturnedFromCatch(s)
          => /\ ~InResponse(s, inv[s].error.message)
             /\ ~InResponse(s, inv[s].error.stack)
             /\ Get(LastLine(s), "error") = JsString(inv[s].error.message)

\* both slots returned the greeting 500 for the same request after
\* different failures, one with a stack and one without
C29_Witness ==
    \E s, t \in Slots :
        /\ inv[s].handler = "hello" /\ inv[t].handler = "hello"
        /\ ReturnedFromCatch(s) /\ ReturnedFromCatch(t)
        /\ inv[s].event = inv[t].event
        /\ inv[s].error.message = "Simulated error"
        /\ inv[t].error.message = "Test error"

(***************************************************************************)
(* C30.  ERROR records only on the error path.                             *)
(***************************************************************************)

\* the lines of slot s that are a completion record
CompletionLines(s) ==
    { k \in 1..Len(inv[s].logs) :
        Get(JSONparse(inv[s].logs[k]), "message") \in
            {JsString("Successfully processed request"),
             JsString("Health check completed")} }

\* C30: an invocation that returned statusCode 200, or a health 503 whose
\* body says "degraded", has written INFO lines only; an invocation that
\* returned the greeting 500, or a health body that says "unhealthy", has
\* written no completion record.
C30_ErrorOnlyOnErrorPath ==
    \A s \in Slots :
        Returned(s)
        => /\ (\/ inv[s].response.statusCode = 200
               \/ /\ inv[s].handler = "health" /\ inv[s].response.statusCode = 503
                  /\ Get(Body(s), "status") = JsString("degraded"))
                 => /\ LinesAt(s, "ERROR") = {}
                    /\ LinesAt(s, "INFO") = 1..Len(inv[s].logs)
           /\ (\/ inv[s].handler = "hello" /\ inv[s].response.statusCode = 500
               \/ /\ inv[s].handler = "health"
                  /\ Get(Body(s), "status") = JsString("unhealthy"))
                 => CompletionLines(s) = {}

\* a health "unhealthy" response after the completion log itself failed:
\* the request record and the ERROR record, no completion record
C30_Witness ==
    \E s \in Slots :
        /\ inv[s].handler = "health" /\ ReturnedFromCatch(s)
        /\ inv[s].responseData # <<>>
        /\ Len(inv[s].logs) = 2
        /\ Get(Body(s), "status") = JsString("unhealthy")

====
